---- MODULE Spec2Model ----
(***************************************************************************)
(* Model of compress.py: main() validates the two directories, then        *)
(* process_images() lists the *.png files, submits one run_magick task per *)
(* file to a ProcessPoolExecutor, collects the futures in submission       *)
(* order, leaves the pool (shutdown waits for every task) and finally runs *)
(* the post-pass that checks each expected artifact and removes the input. *)
(*                                                                         *)
(* File names are sequences of characters, so that str.endswith and        *)
(* Path.stem are computed as pathlib computes them.  Timestamps are        *)
(* nanosecond ticks on disk; stat() exposes them as floats (StatFloat) and *)
(* os.utime writes the float back (UtimeNs).                               *)
(***************************************************************************)
EXTENDS Integers, Sequences, FiniteSets, TLC

\* ------------------------------------------------------------- bounds ---
MaxFiles == 3      \* entries in the input directory
MaxWorkers == 2    \* size of the process pool (os.cpu_count())
MaxTick == 1       \* input modification times are 0..MaxTick ticks

\* ------------------------------------------------- names and paths ------
COMPRESSED_FILE_TYPE == <<"w", "e", "b", "p">>

PngSuffix == <<".", "p", "n", "g">>

\* Granularity of a float second, in ticks (about 2^-22 s at today's epoch).
FloatUlp == 2

\* Directory entries the model draws from: "a.png", ".png", ".png.png", "a.txt".
NameUniverse ==
    { <<"a">> \o PngSuffix,
      PngSuffix,
      PngSuffix \o PngSuffix,
      <<"a", ".", "t", "x", "t">> }

\* str.endswith(suffix)
EndsWith(s, suffix) ==
    /\ Len(s) >= Len(suffix)
    /\ SubSeq(s, Len(s) - Len(suffix) + 1, Len(s)) = suffix

\* str.rfind(c), 1-based; 0 when c does not occur
RFind(s, c) ==
    LET hits == {k \in 1..Len(s) : s[k] = c}
    IN  IF hits = {} THEN 0 ELSE CHOOSE k \in hits : \A j \in hits : j <= k

\* pathlib: the suffix starts at the last dot, unless that dot is the first
\* or the last character of the name; the stem is the name without it.
Stem(name) ==
    LET k == RFind(name, ".")
    IN  IF 1 < k /\ k < Len(name) THEN SubSeq(name, 1, k - 1) ELSE name

\* output_dir / (file.stem + "." + _COMPRESSED_FILE_TYPE); the output
\* directory is fixed, so a path in it is identified by its file name.
OutputPath(name) == Stem(name) \o <<".">> \o COMPRESSED_FILE_TYPE

OutPaths == {OutputPath(n) : n \in NameUniverse}

\* [f for f in os.listdir(imgs_dir) if f.endswith(".png")], as a set
PngNames(dir) == {n \in dir : EndsWith(n, PngSuffix)}

\* os.listdir returns the entries in arbitrary order
Orderings(S) ==
    {s \in [1..Cardinality(S) -> S] : \A i, j \in 1..Cardinality(S) : i # j => s[i] # s[j]}

\* ------------------------------------------------------ timestamps ------
NoFile == <<>>

\* stat().st_atime / st_mtime: the tick count rounded to a float
StatFloat(ns) == ((ns + FloatUlp \div 2) \div FloatUlp) * FloatUlp

\* os.utime(path, (atime, mtime)) with floats: converted back to ticks
UtimeNs(f) == f

\* (atime, mtime) of an input whose mtime is m: read after it was written
InputStamp(m) == <<m + FloatUlp, m>>

\* the clock while the run executes: later than every input time
Now == MaxTick + 3 * FloatUlp

VARIABLES
    inputIsDir,      \* args.input.is_dir()
    outputIsDir,     \* args.output.is_dir()
    remove_input,    \* args.remove_input
    inputWritable,   \* os.remove may unlink entries of the input directory
    dirContent,      \* entries of the input directory when the run starts
    inStamp,         \* name -> <<atime, mtime>> ticks of each input
    inDir,           \* entries of the input directory now
    outDir,          \* output path -> NoFile or <<atime, mtime>> ticks
    vanished,        \* output paths unlinked by something other than the run
    pc,              \* position of the main process
    png_files,       \* the list built at line 55
    idx,             \* index of the loop the main process is in
    task,            \* state of each submitted run_magick call
    seen,            \* what expected_file.exists() returned in the post-pass
    printed,         \* lines written to stdout, in order
    result,          \* outcome of process_images
    exitCode         \* exit status of the process

vars == <<inputIsDir, outputIsDir, remove_input, inputWritable, dirContent, inStamp,
          inDir, outDir, vanished, pc, png_files, idx, task, seen, printed, result,
          exitCode>>

params == <<inputIsDir, outputIsDir, remove_input, inputWritable, dirContent, inStamp>>

N == Len(png_files)

\* as Finished, but the future counts as done once magick has exited
Finished_AtMagickExit(i) == task[i] \in {"ok", "failed", "converted"}

\* Future.done(): run_magick has returned or raised
Finished(i) == task[i] \in {"ok", "failed"}

Printed(m) == \E k \in 1..Len(printed) : printed[k] = m

Msg(kind, file) == [kind |-> kind, file |-> file]

Init ==
    /\ inputIsDir \in BOOLEAN
    /\ outputIsDir \in BOOLEAN
    /\ remove_input \in BOOLEAN
    /\ inputWritable \in BOOLEAN
    /\ dirContent \in {d \in SUBSET NameUniverse : Cardinality(d) <= MaxFiles}
    /\ inStamp \in [PngNames(dirContent) -> {InputStamp(m) : m \in 0..MaxTick}]
    /\ inDir = dirContent
    /\ outDir = [p \in OutPaths |-> NoFile]
    /\ vanished = {}
    /\ pc = "main"
    /\ png_files = <<>>
    /\ idx = 0
    /\ task = <<>>
    /\ seen = <<>>
    /\ printed = <<>>
    /\ result = "none"
    /\ exitCode = -1

\* ------------------------------------------------------------ main ------
\* lines 112-118: a path that is not a directory is reported and main returns
InvalidDirectory ==
    /\ pc = "main"
    /\ ~inputIsDir \/ ~outputIsDir
    /\ printed' = Append(printed, Msg("NotADirectory",
                                      IF ~inputIsDir THEN <<"input">> ELSE <<"output">>))
    /\ pc' = "exited"
    /\ exitCode' = 0
    /\ UNCHANGED <<params, inDir, outDir, vanished, png_files, idx, task, seen, result>>

\* line 120 and line 55: process_images is entered and the inputs are listed
ListInputs ==
    /\ pc = "main"
    /\ inputIsDir /\ outputIsDir
    /\ \E files \in Orderings(PngNames(inDir)) :
          /\ png_files' = files
          /\ task' = [i \in 1..Len(files) |-> "unsubmitted"]
          /\ seen' = [i \in 1..Len(files) |-> "none"]
          /\ pc' = IF Len(files) = 0 THEN "collect" ELSE "submit"
    /\ idx' = 1
    /\ UNCHANGED <<params, inDir, outDir, vanished, printed, result, exitCode>>

\* ------------------------------------------------- process_images ------
\* lines 60-63: executor.submit(run_magick, file, output_dir), one per file
Submit ==
    /\ pc = "submit"
    /\ task' = [task EXCEPT ![idx] = "pending"]
    /\ IF idx = N THEN pc' = "collect" /\ idx' = 1
                  ELSE pc' = "submit" /\ idx' = idx + 1
    /\ UNCHANGED <<params, inDir, outDir, vanished, png_files, seen, printed, result,
                   exitCode>>

\* future.result() returns or raises once the task has finished
ResultReady(i) == Finished(i)

\* as Collect, but the results are taken as they complete (as_completed)
\* instead of in submission order; idx counts the results taken
Collect_AsCompleted ==
    /\ pc = "collect"
    /\ idx <= N
    /\ \E k \in 1..N :
          /\ ResultReady(k)
          /\ ~Printed(Msg("Processed", png_files[k]))
          /\ IF task[k] = "failed"
                THEN /\ printed' = Append(printed, Msg("Error", png_files[k]))
                     /\ idx' = idx
                     /\ pc' = "return_false"
                ELSE /\ printed' = Append(printed, Msg("Processed", png_files[k]))
                     /\ idx' = idx + 1
                     /\ pc' = "collect"
    /\ UNCHANGED <<params, inDir, outDir, vanished, png_files, task, seen, result,
                   exitCode>>

\* as Collect, but the except branch prints and the loop goes on
Collect_KeepsGoing ==
    /\ pc = "collect"
    /\ idx <= N
    /\ ResultReady(idx)
    /\ printed' = Append(printed, Msg(IF task[idx] = "failed" THEN "Error" ELSE "Processed",
                                      png_files[idx]))
    /\ idx' = idx + 1
    /\ pc' = "collect"
    /\ UNCHANGED <<params, inDir, outDir, vanished, png_files, task, seen, result,
                   exitCode>>

\* lines 66-73: the futures are consumed in submission order; the first one
\* that raised is printed and process_images returns False from inside the
\* with block
Collect ==
    /\ pc = "collect"
    /\ idx <= N
    /\ ResultReady(idx)
    /\ IF task[idx] = "failed"
          THEN /\ printed' = Append(printed, Msg("Error", png_files[idx]))
               /\ idx' = idx
               /\ pc' = "return_false"
          ELSE /\ printed' = Append(printed, Msg("Processed", png_files[idx]))
               /\ idx' = idx + 1
               /\ pc' = "collect"
    /\ UNCHANGED <<params, inDir, outDir, vanished, png_files, task, seen, result,
                   exitCode>>

\* ProcessPoolExecutor.__exit__ is shutdown(wait=True): it returns when no
\* submitted work item is pending or running; nothing is cancelled
ShutdownComplete == \A i \in 1..N : Finished(i)

\* as ExecutorExit, but a failed run unlinks the artifacts it produced
ExecutorExit_CleansUp ==
    /\ \/ pc = "collect" /\ idx > N
       \/ pc = "return_false"
    /\ ShutdownComplete
    /\ IF pc = "return_false"
          THEN /\ result' = "false"
               /\ pc' = "returned"
               /\ idx' = idx
               /\ outDir' = [p \in OutPaths |-> NoFile]
          ELSE /\ result' = result
               /\ pc' = "postpass"
               /\ idx' = 1
               /\ outDir' = outDir
    /\ UNCHANGED <<params, inDir, vanished, png_files, task, seen, printed, exitCode>>

\* as ExecutorExit, but with shutdown(wait=False)
ExecutorExit_NoWait ==
    /\ \/ pc = "collect" /\ idx > N
       \/ pc = "return_false"
    /\ IF pc = "return_false"
          THEN /\ result' = "false"
               /\ pc' = "returned"
               /\ idx' = idx
          ELSE /\ result' = result
               /\ pc' = "postpass"
               /\ idx' = 1
    /\ UNCHANGED <<params, inDir, outDir, vanished, png_files, task, seen, printed,
                   exitCode>>

\* line 58, leaving the with block: after the loop, or on the way out of
\* the return at line 73
ExecutorExit ==
    /\ \/ pc = "collect" /\ idx > N
       \/ pc = "return_false"
    /\ ShutdownComplete
    /\ IF pc = "return_false"
          THEN /\ result' = "false"
               /\ pc' = "returned"
               /\ idx' = idx
          ELSE /\ result' = result
               /\ pc' = "postpass"
               /\ idx' = 1
    /\ UNCHANGED <<params, inDir, outDir, vanished, png_files, task, seen, printed,
                   exitCode>>

\* as RemoveWanted, with the flag ignored
RemoveWanted_Always == TRUE

\* as RemoveWanted, with the flag inverted
RemoveWanted_Inverted == ~remove_input

\* line 78: the input is removed only when the flag is set
RemoveWanted == remove_input

\* as KeepOriginal, but the input is unlinked all the same
KeepOriginal_Removes(single_file) == inDir \ {single_file}

\* lines 80-83: the else branch leaves the input directory as it is
KeepOriginal(single_file) == inDir

\* as ArtifactExists, but the check is skipped
ArtifactExists_Unchecked(expected_file) == TRUE

\* line 77: expected_file.exists()
ArtifactExists(expected_file) == outDir[expected_file] # NoFile

\* lines 75-83: one iteration of the post-pass.  os.remove raises when the
\* entry cannot be unlinked, and nothing in process_images or main catches it
PostPass ==
    /\ pc = "postpass"
    /\ idx <= N
    /\ LET single_file == png_files[idx]
           expected_file == OutputPath(single_file)
       IN  IF ArtifactExists(expected_file)
              THEN /\ seen' = [seen EXCEPT ![idx] = "present"]
                   /\ printed' = printed
                   /\ IF ~RemoveWanted
                         THEN /\ inDir' = inDir
                              /\ pc' = "postpass" /\ idx' = idx + 1
                              /\ result' = result
                         ELSE IF inputWritable /\ single_file \in inDir
                                 THEN /\ inDir' = inDir \ {single_file}
                                      /\ pc' = "postpass" /\ idx' = idx + 1
                                      /\ result' = result
                                 ELSE /\ inDir' = inDir
                                      /\ pc' = "raised" /\ idx' = idx
                                      /\ result' = "exception"
              ELSE /\ seen' = [seen EXCEPT ![idx] = "absent"]
                   /\ printed' = Append(printed, Msg("ExpectedNotFound", single_file))
                   /\ inDir' = KeepOriginal(single_file)
                   /\ pc' = "postpass" /\ idx' = idx + 1
                   /\ result' = result
    /\ UNCHANGED <<params, outDir, vanished, png_files, task, exitCode>>

\* line 85
ReturnTrue ==
    /\ pc = "postpass"
    /\ idx > N
    /\ result' = "true"
    /\ pc' = "returned"
    /\ UNCHANGED <<params, inDir, outDir, vanished, png_files, idx, task, seen, printed,
                   exitCode>>

\* lines 120-125: the exit status follows the value process_images returned
MainExit ==
    /\ pc = "returned"
    /\ IF result = "false"
          THEN /\ printed' = Append(printed, Msg("OperationFailed", <<>>))
               /\ exitCode' = 1
          ELSE /\ printed' = Append(printed, Msg("OperationCompleted", <<>>))
               /\ exitCode' = 0
    /\ pc' = "exited"
    /\ UNCHANGED <<params, inDir, outDir, vanished, png_files, idx, task, seen, result>>

\* an exception that leaves main ends the interpreter with status 1
UncaughtException ==
    /\ pc = "raised"
    /\ exitCode' = 1
    /\ pc' = "exited"
    /\ UNCHANGED <<params, inDir, outDir, vanished, png_files, idx, task, seen, printed,
                   result>>

\* ------------------------------------------------------ worker pool -----
\* a worker is occupied from the start of run_magick until it returns or
\* raises; a subprocess that never exits keeps its worker for good
Busy == {i \in 1..N : task[i] \in {"running", "converted", "hung"}}

\* a free worker takes the oldest queued call
StartTask(i) ==
    /\ task[i] = "pending"
    /\ \A j \in 1..(i - 1) : task[j] # "pending"
    /\ Cardinality(Busy) < MaxWorkers
    /\ task' = [task EXCEPT ![i] = "running"]
    /\ UNCHANGED <<params, inDir, outDir, vanished, pc, png_files, idx, seen, printed,
                   result, exitCode>>

\* lines 30-35: magick exits.  A non-zero status raises; status 0 normally
\* comes with the artifact written (stamped with the current time), but the
\* code does not rely on it
MagickExit(i) ==
    /\ task[i] = "running"
    /\ \E outcome \in {"nonzero", "written", "nothing_written"} :
          /\ task' = [task EXCEPT ![i] = IF outcome = "nonzero" THEN "failed"
                                                                ELSE "converted"]
          /\ outDir' = IF outcome = "written"
                          THEN [outDir EXCEPT ![OutputPath(png_files[i])] = <<Now, Now>>]
                          ELSE outDir
    /\ UNCHANGED <<params, inDir, vanished, pc, png_files, idx, seen, printed, result,
                   exitCode>>

\* line 32: subprocess.run has no timeout; an invocation that never exits
\* leaves run_magick blocked in it forever
MagickHangs(i) ==
    /\ task[i] = "running"
    /\ task' = [task EXCEPT ![i] = "hung"]
    /\ UNCHANGED <<params, inDir, outDir, vanished, pc, png_files, idx, seen, printed,
                   result, exitCode>>

\* line 37-38: the timestamps written on the artifact
CopiedStamp(file_stat) ==
    <<UtimeNs(StatFloat(file_stat[1])), UtimeNs(StatFloat(file_stat[2]))>>

\* lines 37-39: file.stat() and os.utime(); either raises when its file is
\* missing, which fails the task
CopyTimestamps(i) ==
    /\ task[i] = "converted"
    /\ LET file == png_files[i]
           output_webp_file == OutputPath(file)
       IN  IF file \in inDir /\ outDir[output_webp_file] # NoFile
              THEN /\ outDir' = [outDir EXCEPT
                                   ![output_webp_file] = CopiedStamp(inStamp[file])]
                   /\ task' = [task EXCEPT ![i] = "ok"]
              ELSE /\ outDir' = outDir
                   /\ task' = [task EXCEPT ![i] = "failed"]
    /\ UNCHANGED <<params, inDir, vanished, pc, png_files, idx, seen, printed, result,
                   exitCode>>

\* ------------------------------------------------------ environment -----
\* lines 77-83 guard against an artifact that is gone after every task
\* reported success: something outside the run unlinks it before the check
ArtifactVanishes(p) ==
    /\ pc = "postpass"
    /\ outDir[p] # NoFile
    /\ outDir' = [outDir EXCEPT ![p] = NoFile]
    /\ vanished' = vanished \cup {p}
    /\ UNCHANGED <<params, inDir, pc, png_files, idx, task, seen, printed, result,
                   exitCode>>

Next ==
    \/ InvalidDirectory
    \/ ListInputs
    \/ Submit
    \/ Collect
    \/ ExecutorExit
    \/ PostPass
    \/ ReturnTrue
    \/ MainExit
    \/ UncaughtException
    \/ \E i \in 1..N : StartTask(i)
    \/ \E i \in 1..N : MagickExit(i)
    \/ \E i \in 1..N : MagickHangs(i)
    \/ \E i \in 1..N : CopyTimestamps(i)
    \/ \E p \in OutPaths : ArtifactVanishes(p)

Spec == Init /\ [][Next]_vars

\* The main process keeps running, the pool keeps handing queued calls to
\* free workers, and a worker keeps executing run_magick; an invocation of
\* magick that can exit does exit.  Nothing is assumed of the environment.
MainStep ==
    \/ InvalidDirectory
    \/ ListInputs
    \/ Submit
    \/ Collect
    \/ ExecutorExit
    \/ PostPass
    \/ ReturnTrue
    \/ MainExit
    \/ UncaughtException

WorkerStep(i) ==
    /\ i <= N
    /\ StartTask(i) \/ MagickExit(i) \/ CopyTimestamps(i)

FairSpec ==
    /\ Spec
    /\ WF_vars(MainStep)
    /\ \A i \in 1..Cardinality(NameUniverse) : WF_vars(WorkerStep(i))

\* ------------------------------------------------------------ claims ----
AnyFailed == \E i \in 1..N : task[i] = "failed"

AllSucceeded == \A i \in 1..N : task[i] = "ok"

DirectoriesValid == inputIsDir /\ outputIsDir

Artifacts == {p \in OutPaths : outDir[p] # NoFile}

\* C1: once a conversion of the run has failed, no input is ever deleted and
\* process_images can only end by returning False, whatever the flag and
\* whatever the other tasks did.
C1_FailureDeletesNothing ==
    AnyFailed =>
        /\ inDir = dirContent
        /\ result \in {"none", "false"}
        /\ pc \in {"returned", "exited"} => result = "false"

C1_Witness ==
    /\ result = "false"
    /\ remove_input /\ inputWritable
    /\ N >= 2
    /\ task[1] = "ok" /\ task[2] = "failed"
    /\ outDir[OutputPath(png_files[1])] # NoFile

\* C2: with --input or --output not a directory the process ends with exit
\* status 1, and nothing was dispatched, written, re-stamped or deleted.
C2_InvalidDirectoryExitsOne ==
    (pc = "exited" /\ ~DirectoriesValid) =>
        /\ exitCode = 1
        /\ task = <<>>
        /\ Artifacts = {}
        /\ inDir = dirContent

C4_Barrier ==
    (\/ pc = "postpass"
     \/ \E i \in 1..N : seen[i] # "none"
     \/ inDir # dirContent)
        => \A i \in 1..N : task[i] \in {"ok", "failed"}

C4_Witness ==
    /\ pc = "postpass"
    /\ N >= 2
    /\ seen[1] # "none" /\ seen[2] = "none"

\* C5: process_images has an outcome only when no submitted conversion is
\* pending or running, also when the outcome is the failure of another task.
C5_NoReturnWhileRunning ==
    result # "none" => \A i \in 1..N : task[i] \in {"ok", "failed"}

C5_Witness ==
    /\ result = "false"
    /\ N >= 3
    /\ task[1] = "failed" /\ task[2] = "ok" /\ task[3] = "ok"

\* C6: with removeOnSuccess set, a run that returned True has removed every
\* listed input.
C6_AllInputsRemoved ==
    (result = "true" /\ remove_input) =>
        \A i \in 1..N : png_files[i] \notin inDir

\* C6 (amended): with removeOnSuccess set, a run that returned True has
\* removed every listed input whose expected artifact the post-pass found.
C6_InputsWithArtifactRemoved ==
    (result = "true" /\ remove_input) =>
        \A i \in 1..N : seen[i] = "present" => png_files[i] \notin inDir

C6_Witness ==
    /\ result = "true" /\ remove_input
    /\ N >= 2
    /\ \A i \in 1..N : seen[i] = "present"
    /\ PngNames(inDir) = {}

\* C7: with removeOnSuccess false the input directory never loses an entry.
C7_NoFlagNoRemoval ==
    ~remove_input => inDir = dirContent

C7_Witness ==
    /\ ~remove_input
    /\ result = "true"
    /\ N >= 1
    /\ \A i \in 1..N : seen[i] = "present"

\* C8: with both directories valid the exit status is 0 exactly when every
\* conversion succeeded, and 1 when one failed.
C8_ExitCodeFollowsConversions ==
    (pc = "exited" /\ DirectoriesValid) =>
        /\ exitCode = 0 <=> AllSucceeded
        /\ AnyFailed => exitCode = 1

C10_OneArtifactPerInput ==
    (result = "true" /\ vanished = {}) =>
        /\ Cardinality(Artifacts) = N
        /\ \A i \in 1..N :
              LET p == OutputPath(png_files[i])
              IN  /\ outDir[p] # NoFile
                  /\ StatFloat(outDir[p][1]) = StatFloat(inStamp[png_files[i]][1])
                  /\ StatFloat(outDir[p][2]) = StatFloat(inStamp[png_files[i]][2])

\* C11: every step that deletes an input deletes the one input the post-pass
\* is at, with removeOnSuccess set, with its own conversion and every other
\* conversion of the run returned successfully, and with its expected
\* artifact on disk in the state the deletion starts from.
C11_DeletedOnlyAfterVerifiedSuccess ==
    [][\A n \in inDir \ inDir' :
          /\ pc = "postpass"
          /\ remove_input
          /\ idx \in 1..N /\ png_files[idx] = n
          /\ task[idx] = "ok"
          /\ AllSucceeded
          /\ outDir[OutputPath(n)] # NoFile
          /\ seen'[idx] = "present"]_vars

C11_Witness ==
    /\ remove_input
    /\ N >= 2
    /\ png_files[1] \notin inDir /\ png_files[2] \in inDir
    /\ seen[1] = "present"
    /\ vanished # {}

\* C12: no exception leaves process_images: with valid directories the run
\* never ends in an exception, and a process that has exited came out of
\* process_images with True or False.
C12_NoExceptionEscapes ==
    /\ result # "exception"
    /\ (pc = "exited" /\ DirectoriesValid) => result \in {"true", "false"}

C14_DistinctOutputPaths ==
    \A i, j \in 1..N :
        i # j => OutputPath(png_files[i]) # OutputPath(png_files[j])

\* C15: when process_images has returned False, every input is still in the
\* input directory and every conversion that succeeded still has its
\* artifact, carrying timestamps copied by a successful conversion that wrote
\* to that path.
C15_FailedRunCleansNothing ==
    result = "false" =>
        /\ inDir = dirContent
        /\ \A i \in 1..N :
              task[i] = "ok" =>
                  LET p == OutputPath(png_files[i])
                  IN  /\ outDir[p] # NoFile
                      /\ \E j \in 1..N :
                            /\ task[j] = "ok"
                            /\ OutputPath(png_files[j]) = p
                            /\ outDir[p] = CopiedStamp(inStamp[png_files[j]])

C15_Witness ==
    /\ result = "false"
    /\ remove_input /\ inputWritable
    /\ N >= 3
    /\ task[1] = "ok" /\ task[2] = "failed" /\ task[3] = "ok"
    /\ outDir[OutputPath(png_files[3])] = CopiedStamp(inStamp[png_files[3]])

\* the lines printed for the inputs submitted first..last
ReportedInOrder(first, last) ==
    [k \in 1..(last - first + 1) |->
        Msg(IF task[first + k - 1] = "failed" THEN "Error" ELSE "Processed",
            png_files[first + k - 1])]

\* C16: when process_images has returned False, with f the earliest-submitted
\* input whose conversion failed, the lines printed for the inputs are
\* exactly "Processed" for the inputs submitted before f, in submission
\* order, then "Error" for f; nothing is printed for any input after f.
C16_ReportedInSubmissionOrder ==
    result = "false" =>
        \E f \in 1..N :
            /\ task[f] = "failed"
            /\ \A j \in 1..(f - 1) : task[j] = "ok"
            /\ Len(printed) >= f
            /\ SubSeq(printed, 1, f) = ReportedInOrder(1, f)
            /\ \A k \in (f + 1)..Len(printed) : printed[k] = Msg("OperationFailed", <<>>)

C16_Witness ==
    /\ result = "false"
    /\ N >= 3
    /\ task[1] = "ok" /\ task[2] = "failed" /\ task[3] = "failed"
    /\ Len(printed) = 2

SomeHung == \E i \in 1..N : task[i] = "hung"

\* one step of a task: submitted at most once, never resubmitted or rerun
\* after it finished, and a hung invocation stays hung
NoRetryStep ==
    \A i \in 1..N :
        /\ task'[i] = "pending" => task[i] \in {"unsubmitted", "pending"}
        /\ task'[i] = "unsubmitted" => task[i] = "unsubmitted"
        /\ task[i] \in {"ok", "failed", "hung"} => task'[i] = task[i]

\* C17: every listed input is submitted once and never retried; while an
\* invocation of the tool never exits, process_images has no outcome; and
\* under fair scheduling, with valid directories, process_images eventually
\* ends unless some invocation never exits.
C17_Termination ==
    /\ [][NoRetryStep]_vars
    /\ [](pc \in {"collect", "return_false", "postpass", "returned"} =>
             /\ \A i \in 1..N : task[i] # "unsubmitted"
             /\ \A i, j \in 1..N : i # j => png_files[i] # png_files[j]
             /\ {png_files[i] : i \in 1..N} = PngNames(dirContent))
    /\ [](SomeHung => result = "none")
    /\ <>(~DirectoriesValid \/ SomeHung \/ result # "none")

C17_Witness ==
    /\ result = "true"
    /\ N >= 3
    /\ \A i \in 1..N : task[i] = "ok"
    /\ ~SomeHung
====
